---- MODULE Spec2Model ----
(***************************************************************************)
(* Model of redfin_scraping.py: one run of main() driving RedfinScraper    *)
(* (setup_selenium, navigate_to_city, get_median_sale_prices, __del__),    *)
(* the price-text conversion and the 36-step synthetic series generator.   *)
(*                                                                         *)
(* Texts and URLs are sequences of one-character strings.  A price is a    *)
(* decimal fraction n / d (d a power of ten); a series value is a whole    *)
(* number of cents (the result of round(x, 2)).  A perturbation draw is a  *)
(* whole number of percent in -2..2; when the exact product of price and   *)
(* draw is half-way between two cents, the double the code computes fixes  *)
(* the side round(x, 2) takes.                                             *)
(***************************************************************************)
EXTENDS Integers, Sequences, FiniteSets, TLC

VARIABLES
    pc,               \* position of the run in main / the scraper methods
    driver,           \* self.driver: "None" or "session"
    exc,              \* class of the exception in flight, "none" otherwise
    setupFailed,      \* setup_selenium raised
    promptsRead,      \* number of input() calls made by main
    state,            \* state read by main at line 157
    city,             \* city read by main at line 158
    attempt,          \* loop variable of navigate_to_city (attempts finished)
    rootLoads,        \* calls of driver.get("https://www.redfin.com")
    failedAttempts,   \* attempts that ended in the except clause
    sleeps,           \* calls of time.sleep(2) in navigate_to_city
    navResult,        \* return value of navigate_to_city: "none", "True", "False"
    navEscaped,       \* an exception left navigate_to_city
    current_url,      \* current_url read at line 84
    lastGet,          \* argument of the last driver.get call
    attemptSteps,     \* browser steps the current attempt has completed, in order
    sleptSeconds,     \* total time slept by the time.sleep(2) calls of line 92, in seconds
    typed,            \* characters of the query sent by the loop of lines 76-78
    typingSleeps,     \* calls of time.sleep at line 78
    typingSlept,      \* total time slept at line 78, in hundredths of a second
    priceWaits,       \* times the wait for the price element was started
    price_text,       \* price_element.text.strip()
    current_price,    \* parsed anchor price
    current_date,     \* datetime.now() of line 124, as a day ordinal
    seed,             \* seed of the random source behind random.uniform
    monthly_data,     \* the series built by the generator loop
    generated,        \* the generator loop has returned
    seriesPrinted,    \* main printed the header and the series lines
    fileOpened,       \* median_prices.json was opened for writing
    persisted,        \* json.dump completed
    errorLines,       \* "Error in main: ..." lines printed by main
    quitCalls,        \* invocations of driver.quit over the whole process
    quitRaised,       \* some driver.quit invocation raised
    uncaught          \* an exception reached the top level of the process

vars == <<pc, driver, exc, setupFailed, promptsRead, state, city, attempt, rootLoads,
          failedAttempts, sleeps, navResult, navEscaped, current_url, lastGet,
          attemptSteps, sleptSeconds, typed, typingSleeps, typingSlept, priceWaits, price_text, current_price, current_date, seed,
          monthly_data, generated,
          seriesPrinted, fileOpened, persisted, errorLines, quitCalls,
          quitRaised, uncaught>>

(***************************************************************************)
(* Exceptions                                                              *)
(***************************************************************************)
\* Classes of exception the browser calls, input() and open() raise here.
BrowserErrors == {"TimeoutException", "NoSuchElementException", "WebDriverException"}

\* isinstance(e, cls) for the classes named in the except clauses.
IsInstance(e, cls) ==
    CASE cls = "Exception"    -> e # "none"
      [] cls = "TimeoutError" -> e = "TimeoutError"
      [] cls = "ValueError"   -> e = "ValueError"
      [] OTHER                -> e = cls

\* except (TimeoutError, Exception) of navigate_to_city.
NavCatchesFaulty(e) == IsInstance(e, "TimeoutError")
NavCatches(e) == IsInstance(e, "TimeoutError") \/ IsInstance(e, "Exception")

\* except (ValueError, Exception) of main.
MainCatches(e) == IsInstance(e, "ValueError") \/ IsInstance(e, "Exception")

\* range(3) of navigate_to_city.
MaxAttempts == 3

\* time.sleep(2) of navigate_to_city.
BackoffSeconds == 2

\* A backoff that grows with the attempt number.
BackoffFaulty(a) == BackoffSeconds * (a + 1)

\* Seconds slept after the failure of attempt a (a = 0, 1, 2): line 92
\* passes the same literal at every attempt.
Backoff(a) == BackoffSeconds

(***************************************************************************)
(* Text helpers (str methods used by the scraper)                          *)
(***************************************************************************)
Digits == {"0", "1", "2", "3", "4", "5", "6", "7", "8", "9"}

DigitVal(c) ==
    CASE c = "0" -> 0 [] c = "1" -> 1 [] c = "2" -> 2 [] c = "3" -> 3
      [] c = "4" -> 4 [] c = "5" -> 5 [] c = "6" -> 6 [] c = "7" -> 7
      [] c = "8" -> 8 [] c = "9" -> 9

DigitChar(v) ==
    CASE v = 0 -> "0" [] v = 1 -> "1" [] v = 2 -> "2" [] v = 3 -> "3"
      [] v = 4 -> "4" [] v = 5 -> "5" [] v = 6 -> "6" [] v = 7 -> "7"
      [] v = 8 -> "8" [] v = 9 -> "9"

\* s.replace(c, ''): every occurrence of c is removed.
RemoveAll(s, c) == SelectSeq(s, LAMBDA x : x # c)

\* c in s
Contains(s, c) == \E i \in 1..Len(s) : s[i] = c

\* s.rstrip(c)
RECURSIVE RStripChar(_, _)
RStripChar(s, c) ==
    IF s # <<>> /\ s[Len(s)] = c THEN RStripChar(SubSeq(s, 1, Len(s) - 1), c) ELSE s

\* s.lstrip(c)
RECURSIVE LStripChar(_, _)
LStripChar(s, c) ==
    IF s # <<>> /\ s[1] = c THEN LStripChar(Tail(s), c) ELSE s

\* s.strip(): leading and trailing whitespace removed.
Strip(s) == LStripChar(RStripChar(s, " "), " ")

\* Case folding of the letters that occur in the modelled texts.
Upper(c) == CASE c = "a" -> "A" [] c = "n" -> "N" [] OTHER -> c

UpperSeq(s) == [i \in 1..Len(s) |-> Upper(s[i])]

RECURSIVE Pow10(_)
Pow10(k) == IF k = 0 THEN 1 ELSE 10 * Pow10(k - 1)

\* Value of a sequence of decimal digits.
RECURSIVE DigitsValue(_)
DigitsValue(s) ==
    IF s = <<>> THEN 0
    ELSE 10 * DigitsValue(SubSeq(s, 1, Len(s) - 1)) + DigitVal(s[Len(s)])

\* Index of the first occurrence of c in s, 0 when absent.
RECURSIVE IndexOf(_, _, _)
IndexOf(s, c, i) ==
    IF i > Len(s) THEN 0 ELSE IF s[i] = c THEN i ELSE IndexOf(s, c, i + 1)

(***************************************************************************)
(* float(): the result is a record.  ok = FALSE is the ValueError float()  *)
(* raises; nan = TRUE is the value nan; otherwise the value is n / d.      *)
(* The modelled texts hold digits, '.', '+', '-', ' ', '$', ',', 'K' and   *)
(* the letters A, N, a, n, so exponents, underscores and inf do not occur. *)
(***************************************************************************)
ParseError == [ok |-> FALSE, nan |-> FALSE, n |-> 0, d |-> 1]

NaN == [ok |-> TRUE, nan |-> TRUE, n |-> 0, d |-> 1]

\* n / d with trailing zeros of the fraction dropped: one record per value.
RECURSIVE Num(_, _)
Num(n, d) ==
    IF d > 1 /\ n % 10 = 0 THEN Num(n \div 10, d \div 10)
    ELSE [ok |-> TRUE, nan |-> FALSE, n |-> n, d |-> d]

\* An unsigned decimal literal: digits with at most one point, one digit at least.
FloatUnsigned(b) ==
    LET digs == RemoveAll(b, ".")
        dot  == IndexOf(b, ".", 1)
    IN  IF UpperSeq(b) = <<"N", "A", "N">> THEN NaN
        ELSE IF /\ digs # <<>>
                /\ \A i \in 1..Len(digs) : digs[i] \in Digits
                /\ Len(b) - Len(digs) <= 1
             THEN Num(DigitsValue(digs), Pow10(IF dot = 0 THEN 0 ELSE Len(b) - dot))
             ELSE ParseError

Negate(v) == IF v.ok /\ ~v.nan THEN [v EXCEPT !.n = 0 - v.n] ELSE v

\* float(s)
Float(s) ==
    LET t == Strip(s)
    IN  IF t = <<>> THEN ParseError
        ELSE IF t[1] = "-" THEN Negate(FloatUnsigned(Tail(t)))
        ELSE IF t[1] = "+" THEN FloatUnsigned(Tail(t))
        ELSE FloatUnsigned(t)

\* x * 1000
Times1000(v) == IF v.ok /\ ~v.nan THEN Num(v.n * 1000, v.d) ELSE v

\* Lines 116-120: the conversion of the price text to a number.
ParsePrice(text) ==
    LET price_value == RemoveAll(RemoveAll(text, "$"), ",")
    IN  IF Contains(price_value, "K")
        THEN Times1000(Float(RemoveAll(price_value, "K")))
        ELSE Float(price_value)

(***************************************************************************)
(* Dates: a timestamp is the proleptic Gregorian ordinal of its day        *)
(* (date.toordinal()); subtracting timedelta(days = k) subtracts k.        *)
(***************************************************************************)
IsLeap(y) == y % 4 = 0 /\ (y % 100 # 0 \/ y % 400 = 0)

DaysInMonth(y, m) ==
    IF m = 2 THEN (IF IsLeap(y) THEN 29 ELSE 28)
    ELSE IF m \in {4, 6, 9, 11} THEN 30 ELSE 31

\* Days of the years before year y.
DaysBeforeYear(y) ==
    LET p == y - 1 IN p * 365 + p \div 4 - p \div 100 + p \div 400

\* Year of the day with ordinal ord.
RECURSIVE YearFrom(_, _)
YearFrom(ord, y) ==
    IF ord > DaysBeforeYear(y + 1) THEN YearFrom(ord, y + 1)
    ELSE IF ord <= DaysBeforeYear(y) THEN YearFrom(ord, y - 1)
    ELSE y

\* Month of the n-th day (n >= 1) of year y, counted from month m.
RECURSIVE MonthFrom(_, _, _)
MonthFrom(y, m, n) ==
    IF n > DaysInMonth(y, m) THEN MonthFrom(y, m + 1, n - DaysInMonth(y, m)) ELSE m

\* <<year, month>> of the day with ordinal ord.
YearMonth(ord) ==
    LET y == YearFrom(ord, ord \div 365 + 1)
    IN  <<y, MonthFrom(y, 1, ord - DaysBeforeYear(y))>>

\* strftime("%Y-%m"): four digits of the year, '-', two digits of the month.
DateKey(ord) ==
    LET ym == YearMonth(ord)
        y  == ym[1]
        m  == ym[2]
    IN  << DigitChar((y \div 1000) % 10), DigitChar((y \div 100) % 10),
           DigitChar((y \div 10) % 10), DigitChar(y % 10), "-",
           DigitChar(m \div 10), DigitChar(m % 10) >>

(***************************************************************************)
(* The generator loop, lines 122-132                                       *)
(***************************************************************************)
\* range(36)
SeriesLen == 36

\* timedelta(days=30 * i)
StepDays == 30

\* random.uniform(-0.02, 0.02), in whole percent.
MaxVariation == 2

Variations == (0 - MaxVariation)..MaxVariation

\* The random source: the draws of one run are fixed by the generator's
\* seed.  Seeds below the number of variations draw one variation at every
\* iteration, the others step through the variations.
NVariations == 2 * MaxVariation + 1

Variation(sd, i) ==
    ((sd + i * (sd \div NVariations)) % NVariations) - MaxVariation

\* An anchor price of c cents and a draw of v percent whose exact product is
\* half-way between two cents (c up to 1000), where the double
\* current_price * (1 + variation) makes round(x, 2) take the upper cent.
HalfCentsUp ==
    { <<25, 2>>, <<50, 1>>, <<75, 2>>, <<125, -2>>, <<150, 1>>, <<175, 2>>,
      <<225, -2>>, <<250, -1>>, <<275, 2>>, <<325, -2>>, <<350, 1>>, <<375, 2>>,
      <<425, -2>>, <<450, -1>>, <<475, -2>>, <<525, 2>>, <<550, -1>>, <<575, 2>>,
      <<625, 2>>, <<650, 1>>, <<675, -2>>, <<725, 2>>, <<750, 1>>, <<775, 2>>,
      <<825, 2>>, <<850, 1>>, <<875, 2>>, <<925, 2>>, <<950, 1>>, <<975, 2>> }

\* Side of an exact half cent that round(current_price * (1 + variation), 2)
\* takes: the double product of the price and the draw lies above or below
\* the half cent (0.25 * 1.02 above 0.255, 0.25 * 0.98 below 0.245), the same
\* at every iteration.  Prices of whole cents up to 10 dollars.
RoundsUp(price, variation) ==
    /\ price.d <= 100
    /\ <<price.n * (100 \div price.d), variation>> \in HalfCentsUp

\* Truncation to whole cents in place of rounding.
RoundCentsFaulty(num, den, up) == num \div den

\* round(x, 2) of x = num / den cents, as a whole number of cents.
RoundCents(num, den, up) ==
    LET q == num \div den
        r == num - q * den
    IN  IF 2 * r < den THEN q
        ELSE IF 2 * r > den THEN q + 1
        ELSE IF up THEN q + 1 ELSE q

\* round(current_price * (1 + variation), 2)
MonthlyPrice(price, variation) ==
    IF price.nan THEN [nan |-> TRUE, cents |-> 0]
    ELSE [nan |-> FALSE,
          cents |-> RoundCents(price.n * (100 + variation), price.d,
                               RoundsUp(price, variation))]

EmptyDict == [k \in {} |-> 0]

\* A store that keeps the value a key already has (dict.setdefault).
DictSetFaulty(data, key, value) ==
    [k \in (DOMAIN data) \cup {key} |-> IF k \in DOMAIN data THEN data[k] ELSE value]

\* monthly_data[key] = value
DictSet(data, key, value) ==
    [k \in (DOMAIN data) \cup {key} |-> IF k = key THEN value ELSE data[k]]

\* Iterations i, i+1, ..., 35 of the loop applied to data.
RECURSIVE GenLoop(_, _, _, _, _)
GenLoop(i, data, price, now, sd) ==
    IF i >= SeriesLen THEN data
    ELSE GenLoop(i + 1,
                 DictSet(data, DateKey(now - StepDays * i),
                         MonthlyPrice(price, Variation(sd, i))),
                 price, now, sd)

\* A loop that starts one step back, at range(1, 36).
GenerateSeriesFaulty(price, now, sd) == GenLoop(1, EmptyDict, price, now, sd)

\* The series get_median_sale_prices returns.
GenerateSeries(price, now, sd) == GenLoop(0, EmptyDict, price, now, sd)

(***************************************************************************)
(* Inputs of a run                                                         *)
(***************************************************************************)
\* Texts the price element can show.
ElementTexts ==
    { <<"$", "4", "5", "0", "K">>,
      <<"$", "8", "7", "5", ",", "2", "5", "0">>,
      <<"N", "/", "A">>,
      <<" ", "$", "1", ".", "2", "K", " ">>,
      <<"$", "0", ".", "5", "5">>,
      <<"$", "N", "a", "N">>,
      <<"$", "0">>,
      <<>> }

\* Locations of the browser after the query has been submitted.
PageUrls ==
    { <<"r", "/", "c", "i", "t", "y", "/", "7">>,
      <<"r", "/", "c", "i", "t", "y", "/", "7", "/">>,
      <<"r", "/", "c", "i", "t", "y", "/", "7", "/", "/">>,
      <<"r", "/", "s", "t", "a", "t", "e">> }

RootUrl == <<"r">>

\* Answers to the two prompts of main.
States == { <<"C">> }

Cities == { <<>>, <<"A">> }

\* f"{city}, {state}"
SearchQuery(c, st) == c \o <<",", " ">> \o st

\* random.uniform(0.1, 0.2), in hundredths of a second.
TypingDelays == {10, 15, 20}

\* '/housing-market'
MarketSuffix ==
    <<"/", "h", "o", "u", "s", "i", "n", "g", "-", "m", "a", "r", "k", "e", "t">>

\* sub in s
ContainsSeq(s, sub) ==
    \E i \in 1..(Len(s) - Len(sub) + 1) : SubSeq(s, i, i + Len(sub) - 1) = sub

\* EC.url_contains("/city/")
UrlContainsCity(u) == ContainsSeq(u, <<"/", "c", "i", "t", "y", "/">>)

\* current_url.rstrip('/') + '/housing-market'
MarketUrl(u) == RStripChar(u, "/") \o MarketSuffix

\* 2024-01-10, the first anchor day of the model.
AnchorBase == 738895

MaxDayOffset == 11

Anchors == AnchorBase..(AnchorBase + MaxDayOffset)

MaxSeed == 9

Seeds == 0..MaxSeed

\* Anchor day and seed of a whole run of main: the last of each range.  The
\* generator on its own goes through all of them.
RunAnchors == {AnchorBase + MaxDayOffset}

RunSeeds == {MaxSeed}

(***************************************************************************)
(* One run of main()                                                       *)
(***************************************************************************)
Init ==
    /\ pc = "main_start"
    /\ driver = "None"
    /\ exc = "none"
    /\ setupFailed = FALSE
    /\ promptsRead = 0
    /\ state = <<>>
    /\ city = <<>>
    /\ attempt = 0
    /\ rootLoads = 0
    /\ failedAttempts = 0
    /\ sleeps = 0
    /\ navResult = "none"
    /\ navEscaped = FALSE
    /\ current_url = <<>>
    /\ lastGet = <<>>
    /\ attemptSteps = <<>>
    /\ sleptSeconds = 0
    /\ typed = 0
    /\ typingSleeps = 0
    /\ typingSlept = 0
    /\ priceWaits = 0
    /\ price_text = <<>>
    /\ current_price = ParseError
    /\ current_date = 0
    /\ seed = 0
    /\ monthly_data = EmptyDict
    /\ generated = FALSE
    /\ seriesPrinted = FALSE
    /\ fileOpened = FALSE
    /\ persisted = FALSE
    /\ errorLines = 0
    /\ quitCalls = 0
    /\ quitRaised = FALSE
    /\ uncaught = FALSE

navVars == <<attempt, rootLoads, failedAttempts, sleeps, navResult, navEscaped,
             current_url, lastGet, attemptSteps, sleptSeconds, typed, typingSleeps,
             typingSlept>>

inputVars == <<promptsRead, state, city>>

genVars == <<priceWaits, price_text, current_price, current_date, seed,
             monthly_data, generated>>

outVars == <<seriesPrinted, fileOpened, persisted, errorLines>>

quitVars == <<quitCalls, quitRaised>>

\* A step that either completes and moves to next or raises e and moves to handler.
Raises(e, handler) == /\ exc' = e
                     /\ pc' = handler

Goes(next) == /\ exc' = exc
              /\ pc' = next

\* The call RedfinScraper() of line 155 stands before main's try statement.
ConstructorInTry == FALSE

\* Lines 25-51: __init__ sets driver to None; ChromeDriverManager().install().
SetupInstall ==
    /\ pc = "main_start"
    /\ \/ Goes("setup_chrome")
       \/ \E e \in BrowserErrors : Raises(e, "setup_except")
    /\ UNCHANGED <<driver, setupFailed, inputVars, navVars, genVars, outVars,
                   quitVars, uncaught>>

\* Line 52: webdriver.Chrome(...) creates the session.
SetupChrome ==
    /\ pc = "setup_chrome"
    /\ \/ /\ Goes("setup_script")
          /\ driver' = "session"
       \/ /\ \E e \in BrowserErrors : Raises(e, "setup_except")
          /\ driver' = driver
    /\ UNCHANGED <<setupFailed, inputVars, navVars, genVars, outVars, quitVars,
                   uncaught>>

\* Lines 54-58: execute_script hides the webdriver property.
SetupScript ==
    /\ pc = "setup_script"
    /\ \/ Goes("main_input")
       \/ \E e \in BrowserErrors : Raises(e, "setup_except")
    /\ UNCHANGED <<driver, setupFailed, inputVars, navVars, genVars, outVars,
                   quitVars, uncaught>>

\* The except clause without its raise: the failure is logged and main goes on.
SetupExceptFaulty ==
    /\ pc = "setup_except"
    /\ setupFailed' = TRUE
    /\ exc' = "none"
    /\ pc' = "main_input"
    /\ UNCHANGED <<driver, inputVars, navVars, genVars, outVars, quitVars, uncaught>>

\* Lines 59-61: log and re-raise; the exception leaves __init__ and reaches
\* the frame of main at line 155.
SetupExcept ==
    /\ pc = "setup_except"
    /\ setupFailed' = TRUE
    /\ IF ConstructorInTry
       THEN /\ pc' = "main_except"
            /\ UNCHANGED uncaught
       ELSE /\ pc' = "uncaught"
            /\ uncaught' = TRUE
    /\ UNCHANGED <<driver, exc, inputVars, navVars, genVars, outVars, quitVars>>

\* Lines 157-159: the two prompts, then the call of get_median_sale_prices,
\* which calls navigate_to_city.
MainInput ==
    /\ pc = "main_input"
    /\ \/ /\ promptsRead' = 2
          /\ state' \in States
          /\ city' \in Cities
          /\ Goes("nav_get_root")
       \/ /\ promptsRead' = 1
          /\ UNCHANGED <<state, city>>
          /\ Raises("EOFError", "main_except")
       \/ /\ promptsRead' = 2
          /\ state' \in States
          /\ city' = city
          /\ Raises("EOFError", "main_except")
    /\ UNCHANGED <<driver, setupFailed, navVars, genVars, outVars, quitVars, uncaught>>

(***************************************************************************)
(* navigate_to_city, lines 63-95                                           *)
(***************************************************************************)
navRest == <<driver, setupFailed, inputVars, genVars, outVars, quitVars, uncaught>>

typingVars == <<typed, typingSleeps, typingSlept>>

\* Line 67: load the root page; the attempt starts here.
NavGetRoot ==
    /\ pc = "nav_get_root"
    /\ attempt < MaxAttempts
    /\ rootLoads' = rootLoads + 1
    /\ lastGet' = RootUrl
    /\ \/ /\ Goes("nav_wait_box")
          /\ attemptSteps' = <<"get_root">>
       \/ /\ \E e \in BrowserErrors : Raises(e, "nav_except")
          /\ attemptSteps' = <<>>
    /\ UNCHANGED <<attempt, failedAttempts, sleeps, navResult, navEscaped, current_url,
                   sleptSeconds, typingVars>>
    /\ UNCHANGED navRest

\* Lines 68-70: wait until the search box is clickable.
NavWaitBox ==
    /\ pc = "nav_wait_box"
    /\ \/ /\ Goes("nav_find_box")
          /\ attemptSteps' = Append(attemptSteps, "box_clickable")
       \/ /\ Raises("TimeoutException", "nav_except")
          /\ attemptSteps' = attemptSteps
    /\ UNCHANGED <<attempt, rootLoads, failedAttempts, sleeps, navResult, navEscaped,
                   current_url, lastGet, sleptSeconds, typingVars>>
    /\ UNCHANGED navRest

\* Line 71: find the search box.
NavFindBox ==
    /\ pc = "nav_find_box"
    /\ \/ Goes("nav_clear_box")
       \/ \E e \in BrowserErrors : Raises(e, "nav_except")
    /\ UNCHANGED navVars
    /\ UNCHANGED navRest

\* Lines 72-76: clear the box; the loop over the characters of the query
\* starts at its first character.
NavClearBox ==
    /\ pc = "nav_clear_box"
    /\ \/ /\ Goes("nav_send_char")
          /\ typed' = 0
       \/ /\ \E e \in BrowserErrors : Raises(e, "nav_except")
          /\ typed' = typed
    /\ UNCHANGED <<attempt, rootLoads, failedAttempts, sleeps, navResult, navEscaped,
                   current_url, lastGet, attemptSteps, sleptSeconds, typingSleeps,
                   typingSlept>>
    /\ UNCHANGED navRest

\* Line 77: send the next character of the query to the box.
NavSendChar ==
    /\ pc = "nav_send_char"
    /\ typed < Len(SearchQuery(city, state))
    /\ \/ /\ Goes("nav_type_sleep")
          /\ typed' = typed + 1
       \/ /\ \E e \in BrowserErrors : Raises(e, "nav_except")
          /\ typed' = typed
    /\ UNCHANGED <<attempt, rootLoads, failedAttempts, sleeps, navResult, navEscaped,
                   current_url, lastGet, attemptSteps, sleptSeconds, typingSleeps,
                   typingSlept>>
    /\ UNCHANGED navRest

\* Line 78: sleep between 0.1 and 0.2 seconds after the character.
NavTypeSleep ==
    /\ pc = "nav_type_sleep"
    /\ typingSleeps' = typingSleeps + 1
    /\ \E t \in TypingDelays : typingSlept' = typingSlept + t
    /\ Goes("nav_send_char")
    /\ UNCHANGED <<attempt, rootLoads, failedAttempts, sleeps, navResult, navEscaped,
                   current_url, lastGet, attemptSteps, sleptSeconds, typed>>
    /\ UNCHANGED navRest

\* Line 79: the query is typed; press RETURN.
NavSendReturn ==
    /\ pc = "nav_send_char"
    /\ typed = Len(SearchQuery(city, state))
    /\ \/ /\ Goes("nav_wait_url")
          /\ attemptSteps' = Append(attemptSteps, "query_submitted")
       \/ /\ \E e \in BrowserErrors : Raises(e, "nav_except")
          /\ attemptSteps' = attemptSteps
    /\ UNCHANGED <<attempt, rootLoads, failedAttempts, sleeps, navResult, navEscaped,
                   current_url, lastGet, sleptSeconds, typingVars>>
    /\ UNCHANGED navRest

\* Lines 81-83: poll the location until it contains "/city/"; the wait
\* times out when no poll sees such a location.
NavWaitUrl ==
    /\ pc = "nav_wait_url"
    /\ \E u \in PageUrls :
          IF UrlContainsCity(u)
          THEN /\ attemptSteps' = Append(attemptSteps, "url_has_city")
               /\ Goes("nav_read_url")
          ELSE /\ attemptSteps' = attemptSteps
               /\ Raises("TimeoutException", "nav_except")
    /\ UNCHANGED <<attempt, rootLoads, failedAttempts, sleeps, navResult, navEscaped,
                   current_url, lastGet, sleptSeconds, typingVars>>
    /\ UNCHANGED navRest

\* Line 84: read the location once more; it is the location of the browser
\* at this read, which the page may have changed since the wait saw it.
NavReadUrl ==
    /\ pc = "nav_read_url"
    /\ \/ /\ \E u \in PageUrls : current_url' = u
          /\ Goes("nav_get_market")
       \/ /\ current_url' = current_url
          /\ \E e \in BrowserErrors : Raises(e, "nav_except")
    /\ UNCHANGED <<attempt, rootLoads, failedAttempts, sleeps, navResult, navEscaped,
                   lastGet, attemptSteps, sleptSeconds, typingVars>>
    /\ UNCHANGED navRest

\* Lines 86-87: load the housing-market page and return True.
NavGetMarket ==
    /\ pc = "nav_get_market"
    /\ lastGet' = MarketUrl(current_url)
    /\ \/ /\ Goes("gm_check_nav")
          /\ navResult' = "True"
          /\ attemptSteps' = Append(attemptSteps, "get_market")
       \/ /\ \E e \in BrowserErrors : Raises(e, "nav_except")
          /\ navResult' = navResult
          /\ attemptSteps' = attemptSteps
    /\ UNCHANGED <<attempt, rootLoads, failedAttempts, sleeps, navEscaped, current_url,
                   sleptSeconds, typingVars>>
    /\ UNCHANGED navRest

\* Lines 89-92: the except clause logs, sleeps and lets the loop go on; an
\* exception the clause does not catch leaves navigate_to_city.
NavExcept ==
    /\ pc = "nav_except"
    /\ IF NavCatches(exc)
       THEN /\ failedAttempts' = failedAttempts + 1
            /\ sleeps' = sleeps + 1
            /\ sleptSeconds' = sleptSeconds + Backoff(attempt)
            /\ attempt' = attempt + 1
            /\ exc' = "none"
            /\ pc' = IF attempt + 1 < MaxAttempts THEN "nav_get_root" ELSE "nav_give_up"
            /\ UNCHANGED navEscaped
       ELSE /\ navEscaped' = TRUE
            /\ pc' = "gm_except"
            /\ UNCHANGED <<failedAttempts, sleeps, sleptSeconds, attempt, exc>>
    /\ UNCHANGED <<rootLoads, navResult, current_url, lastGet, attemptSteps, typingVars>>
    /\ UNCHANGED navRest

\* Lines 94-95: the loop is exhausted; log and return False.
NavGiveUp ==
    /\ pc = "nav_give_up"
    /\ navResult' = "False"
    /\ Goes("gm_check_nav")
    /\ UNCHANGED <<attempt, rootLoads, failedAttempts, sleeps, navEscaped, current_url,
                   lastGet, attemptSteps, sleptSeconds, typingVars>>
    /\ UNCHANGED navRest

(***************************************************************************)
(* get_median_sale_prices, lines 97-141                                    *)
(***************************************************************************)
gmRest == <<driver, setupFailed, inputVars, navVars, outVars, quitVars, uncaught>>

\* The result of navigate_to_city is not looked at.
GmCheckNavFaulty ==
    /\ pc = "gm_check_nav"
    /\ Goes("gm_wait_price")
    /\ UNCHANGED genVars
    /\ UNCHANGED <<driver, setupFailed, inputVars, navVars, outVars, quitVars, uncaught>>

\* Lines 100-101: a False result of navigate_to_city becomes a ValueError.
GmCheckNav ==
    /\ pc = "gm_check_nav"
    /\ IF navResult = "True"
       THEN Goes("gm_wait_price")
       ELSE Raises("ValueError", "gm_except")
    /\ UNCHANGED genVars
    /\ UNCHANGED gmRest

\* Lines 103-110: wait for the price element.
GmWaitPrice ==
    /\ pc = "gm_wait_price"
    /\ priceWaits' = priceWaits + 1
    /\ \/ Goes("gm_read_text")
       \/ Raises("TimeoutException", "gm_except")
    /\ UNCHANGED <<price_text, current_price, current_date, seed, monthly_data, generated>>
    /\ UNCHANGED gmRest

\* Lines 112-113: read the text of the element and strip it.
GmReadText ==
    /\ pc = "gm_read_text"
    /\ \/ /\ \E raw \in ElementTexts : price_text' = Strip(raw)
          /\ Goes("gm_convert")
       \/ /\ price_text' = price_text
          /\ Raises("WebDriverException", "gm_except")
    /\ UNCHANGED <<priceWaits, current_price, current_date, seed, monthly_data, generated>>
    /\ UNCHANGED gmRest

\* Lines 116-120: convert the text; float() raises ValueError on a text
\* that is no float literal.
GmConvert ==
    /\ pc = "gm_convert"
    /\ LET v == ParsePrice(price_text)
       IN  IF v.ok
           THEN /\ current_price' = v
                /\ Goes("gm_generate")
           ELSE /\ current_price' = current_price
                /\ Raises("ValueError", "gm_except")
    /\ UNCHANGED <<priceWaits, price_text, current_date, seed, monthly_data, generated>>
    /\ UNCHANGED gmRest

\* Lines 123-132: build the series and return it to main.
GmGenerate ==
    /\ pc = "gm_generate"
    /\ \E now \in RunAnchors, sd \in RunSeeds :
          /\ current_date' = now
          /\ seed' = sd
          /\ monthly_data' = GenerateSeries(current_price, now, sd)
    /\ generated' = TRUE
    /\ Goes("main_print")
    /\ UNCHANGED <<priceWaits, price_text, current_price>>
    /\ UNCHANGED gmRest

\* The except clauses without their raise: the method returns and main goes on.
GmExceptFaulty ==
    /\ pc = "gm_except"
    /\ exc' = "none"
    /\ pc' = "main_print"
    /\ UNCHANGED genVars
    /\ UNCHANGED <<driver, setupFailed, inputVars, navVars, outVars, quitVars, uncaught>>

\* An except clause that starts the wait for the price element once more.
GmExceptRetrying ==
    /\ pc = "gm_except"
    /\ IF priceWaits = 1
       THEN /\ exc' = "none"
            /\ pc' = "gm_wait_price"
       ELSE Goes("main_except")
    /\ UNCHANGED genVars
    /\ UNCHANGED <<driver, setupFailed, inputVars, navVars, outVars, quitVars, uncaught>>

\* Lines 135-141: both except clauses log and re-raise into main's try block.
GmExcept ==
    /\ pc = "gm_except"
    /\ Goes("main_except")
    /\ UNCHANGED genVars
    /\ UNCHANGED gmRest

(***************************************************************************)
(* main, lines 161-180, and the destructor, lines 143-150                  *)
(***************************************************************************)
mainRest == <<driver, setupFailed, inputVars, navVars, genVars, quitVars, uncaught>>

\* Lines 161-164: print the header and the series sorted by key.
MainPrint ==
    /\ pc = "main_print"
    /\ seriesPrinted' = TRUE
    /\ Goes("main_open")
    /\ UNCHANGED <<fileOpened, persisted, errorLines>>
    /\ UNCHANGED mainRest

\* Line 167: open median_prices.json for writing.
MainOpen ==
    /\ pc = "main_open"
    /\ \/ /\ fileOpened' = TRUE
          /\ Goes("main_dump")
       \/ /\ fileOpened' = fileOpened
          /\ Raises("OSError", "main_except")
    /\ UNCHANGED <<seriesPrinted, persisted, errorLines>>
    /\ UNCHANGED mainRest

\* Line 168: json.dump writes the series; the with statement closes the file.
MainDump ==
    /\ pc = "main_dump"
    /\ \/ /\ persisted' = TRUE
          /\ Goes("main_saved")
       \/ /\ persisted' = persisted
          /\ Raises("OSError", "main_except")
    /\ UNCHANGED <<seriesPrinted, fileOpened, errorLines>>
    /\ UNCHANGED mainRest

\* Line 170: print the confirmation.
MainSaved ==
    /\ pc = "main_saved"
    /\ Goes("main_finally")
    /\ UNCHANGED outVars
    /\ UNCHANGED mainRest

\* Lines 172-173: print the error line.
MainExcept ==
    /\ pc = "main_except"
    /\ IF MainCatches(exc)
       THEN /\ errorLines' = errorLines + 1
            /\ exc' = "none"
            /\ pc' = "main_finally"
       ELSE /\ errorLines' = errorLines
            /\ Goes("main_finally")
    /\ UNCHANGED <<seriesPrinted, fileOpened, persisted>>
    /\ UNCHANGED mainRest

\* What a call of driver.quit() does: return, or raise a browser error.
QuitOutcomes == {"none"} \cup BrowserErrors

\* driver.quit() ending with outcome e: the invocation is counted whether or
\* not it raises.
Quit(e) ==
    /\ quitCalls' = quitCalls + 1
    /\ quitRaised' = (quitRaised \/ e # "none")

\* An except clause that passes over timeouts only.
FinallyCatchesFaulty(e) == IsInstance(e, "TimeoutError")

\* except Exception: pass, lines 179-180.
FinallyCatches(e) == IsInstance(e, "Exception")

\* Lines 174-180: quit the driver if there is one; a failure is passed over.
MainFinally ==
    /\ pc = "main_finally"
    /\ IF driver # "None"
       THEN \E e \in QuitOutcomes :
               /\ Quit(e)
               /\ IF e # "none" /\ ~FinallyCatches(e)
                  THEN /\ exc' = e
                       /\ pc' = "uncaught"
                       /\ uncaught' = TRUE
                  ELSE /\ exc' = exc
                       /\ pc' = IF exc = "none" THEN "main_return" ELSE "uncaught"
                       /\ uncaught' = (exc # "none")
       ELSE /\ UNCHANGED quitVars
            /\ exc' = exc
            /\ pc' = IF exc = "none" THEN "main_return" ELSE "uncaught"
            /\ uncaught' = (exc # "none")
    /\ UNCHANGED <<driver, setupFailed, inputVars, navVars, genVars, outVars>>

\* Lines 143-150: __del__ runs when the scraper object is released, after
\* main has returned or the exception has left it; driver is never reset.
\* The except clause logs a failure of quit; nothing leaves a destructor.
Destructor ==
    /\ pc \in {"main_return", "uncaught"}
    /\ IF driver # "None"
       THEN \E e \in QuitOutcomes : Quit(e)
       ELSE UNCHANGED quitVars
    /\ pc' = "exited"
    /\ UNCHANGED <<driver, exc, setupFailed, inputVars, navVars, genVars, outVars,
                   uncaught>>

Next ==
    \/ SetupInstall \/ SetupChrome \/ SetupScript \/ SetupExcept
    \/ MainInput
    \/ NavGetRoot \/ NavWaitBox \/ NavFindBox \/ NavClearBox \/ NavSendChar
    \/ NavTypeSleep \/ NavSendReturn \/ NavWaitUrl \/ NavReadUrl \/ NavGetMarket
    \/ NavExcept \/ NavGiveUp
    \/ GmCheckNav \/ GmWaitPrice \/ GmReadText \/ GmConvert \/ GmGenerate \/ GmExcept
    \/ MainPrint \/ MainOpen \/ MainDump \/ MainSaved \/ MainExcept \/ MainFinally
    \/ Destructor

Spec == Init /\ [][Next]_vars

(***************************************************************************)
(* The price-text conversion on its own: every text over Alphabet up to    *)
(* MaxTextLen characters, and the element texts, go through lines 116-120. *)
(***************************************************************************)
Alphabet == {"0", "5", "$", ",", ".", "K", "N", "A"}

MaxTextLen == 4

BoundedTexts == UNION { [1..k -> Alphabet] : k \in 0..MaxTextLen }

restOfParse == <<driver, setupFailed, inputVars, navVars, priceWaits, current_date,
                 seed, monthly_data, generated, outVars, quitVars, uncaught>>

ParseInit ==
    /\ pc = "parse_input"
    /\ price_text \in BoundedTexts \cup { Strip(t) : t \in ElementTexts }
    /\ driver = "session"
    /\ exc = "none"
    /\ setupFailed = FALSE
    /\ promptsRead = 2
    /\ state = <<"C">>
    /\ city = <<"A">>
    /\ attempt = 0
    /\ rootLoads = 1
    /\ failedAttempts = 0
    /\ sleeps = 0
    /\ navResult = "True"
    /\ navEscaped = FALSE
    /\ current_url = <<>>
    /\ lastGet = <<>>
    /\ attemptSteps = <<>>
    /\ sleptSeconds = 0
    /\ typed = 0
    /\ typingSleeps = 0
    /\ typingSlept = 0
    /\ priceWaits = 1
    /\ current_price = ParseError
    /\ current_date = 0
    /\ seed = 0
    /\ monthly_data = EmptyDict
    /\ generated = FALSE
    /\ seriesPrinted = FALSE
    /\ fileOpened = FALSE
    /\ persisted = FALSE
    /\ errorLines = 0
    /\ quitCalls = 0
    /\ quitRaised = FALSE
    /\ uncaught = FALSE

\* Lines 116-120 applied to price_text.
ParseApply ==
    /\ pc = "parse_input"
    /\ LET v == ParsePrice(price_text)
       IN  /\ current_price' = v
           /\ exc' = IF v.ok THEN "none" ELSE "ValueError"
    /\ pc' = "parse_done"
    /\ UNCHANGED price_text
    /\ UNCHANGED restOfParse

ParseNext == ParseApply

ParseSpec == ParseInit /\ [][ParseNext]_vars

(***************************************************************************)
(* The generator loop on its own: every anchor price of 1..MaxPriceCents   *)
(* cents and two six-figure prices, every anchor day and every seed.       *)
(***************************************************************************)
MaxPriceCents == 40

AnchorPrices ==
    { Num(c, 100) : c \in 1..MaxPriceCents } \cup { Num(450000, 1), Num(875250, 1) }

GenInit ==
    /\ pc = "gen_input"
    /\ current_price \in AnchorPrices
    /\ price_text = <<>>
    /\ driver = "session"
    /\ exc = "none"
    /\ setupFailed = FALSE
    /\ promptsRead = 2
    /\ state = <<"C">>
    /\ city = <<"A">>
    /\ attempt = 0
    /\ rootLoads = 1
    /\ failedAttempts = 0
    /\ sleeps = 0
    /\ navResult = "True"
    /\ navEscaped = FALSE
    /\ current_url = <<>>
    /\ lastGet = <<>>
    /\ attemptSteps = <<>>
    /\ sleptSeconds = 0
    /\ typed = 0
    /\ typingSleeps = 0
    /\ typingSlept = 0
    /\ priceWaits = 1
    /\ current_date = 0
    /\ seed = 0
    /\ monthly_data = EmptyDict
    /\ generated = FALSE
    /\ seriesPrinted = FALSE
    /\ fileOpened = FALSE
    /\ persisted = FALSE
    /\ errorLines = 0
    /\ quitCalls = 0
    /\ quitRaised = FALSE
    /\ uncaught = FALSE

\* Lines 123-132 applied to current_price.
GenApply ==
    /\ pc = "gen_input"
    /\ \E now \in Anchors, sd \in Seeds :
          /\ current_date' = now
          /\ seed' = sd
          /\ monthly_data' = GenerateSeries(current_price, now, sd)
    /\ generated' = TRUE
    /\ pc' = "gen_done"
    /\ UNCHANGED <<driver, exc, setupFailed, inputVars, navVars, priceWaits,
                   price_text, current_price, outVars, quitVars, uncaught>>

GenNext == GenApply

GenSpec == GenInit /\ [][GenNext]_vars

(***************************************************************************)
(* Properties                                                              *)
(***************************************************************************)
\* Positions inside navigate_to_city.
NavPositions == {"nav_get_root", "nav_wait_box", "nav_find_box", "nav_clear_box",
                 "nav_send_char", "nav_type_sleep", "nav_wait_url", "nav_read_url",
                 "nav_get_market", "nav_except", "nav_give_up"}

\* navigate_to_city was called and control has left it.
NavOver == rootLoads > 0 /\ pc \notin NavPositions

\* C1: when every attempt of navigate_to_city fails, it loads the root page
\* exactly 3 times and returns False, and no exception leaves it: once
\* control has left navigate_to_city with every attempt failed, the result
\* is False after 3 root loads, a False result is only ever returned after 3
\* failed attempts, and no exception has escaped.
C1_RetryBound ==
    /\ ~navEscaped
    /\ (NavOver /\ failedAttempts = rootLoads) =>
           (navResult = "False" /\ rootLoads = 3)
    /\ navResult = "False" => (rootLoads = 3 /\ failedAttempts = 3)

C1_Witness ==
    pc = "gm_check_nav" /\ navResult = "False" /\ failedAttempts = 3

\* C2: in a run in which the session was created, driver.quit is invoked
\* exactly once over the life of the process (main's finally block and the
\* destructor together): never more than once, and once when the process ends.
C2_QuitExactlyOnce ==
    driver = "session" =>
        /\ quitCalls <= 1
        /\ pc = "exited" => quitCalls = 1

\* The 36 dates of the loop: the anchor minus 30 * i days, i = 0..35.
LoopDates == { current_date - StepDays * i : i \in 0..(SeriesLen - 1) }

\* C3: for every anchor timestamp the returned series has exactly 36
\* distinct YYYY-MM keys, one for each of the 36 dates anchor - 30 * i days.
C3_ThirtySixKeys ==
    pc = "gen_done" =>
        /\ Cardinality(DOMAIN monthly_data) = 36
        /\ DOMAIN monthly_data = { DateKey(t) : t \in LoopDates }

\* C4 as stated: every value of the series lies in [0.98 * P, 1.02 * P]
\* (v cents against the price n / d dollars: 98 n <= v d <= 102 n).
C4_WithinTwoPercent ==
    pc = "gen_done" =>
        \A k \in DOMAIN monthly_data :
            /\ 98 * current_price.n <= monthly_data[k].cents * current_price.d
            /\ monthly_data[k].cents * current_price.d <= 102 * current_price.n

\* C4 amended: every value of the series lies within half a cent of the
\* interval [0.98 * P, 1.02 * P], the error of rounding to 2 decimals.
C4_WithinTwoPercentRounded ==
    pc = "gen_done" =>
        \A k \in DOMAIN monthly_data :
            /\ 196 * current_price.n - current_price.d
                   <= 2 * monthly_data[k].cents * current_price.d
            /\ 2 * monthly_data[k].cents * current_price.d
                   <= 204 * current_price.n + current_price.d

\* A generated series with a value below 0.98 * P: rounding took it out.
C4_Witness ==
    /\ pc = "gen_done"
    /\ \E k \in DOMAIN monthly_data :
           monthly_data[k].cents * current_price.d < 98 * current_price.n

(***************************************************************************)
(* The reference parser of the price text, after the specification: drop   *)
(* '$' and ','; a 'K' marks thousands; what remains has to be a decimal    *)
(* numeral (digits, at most one point, one digit at least).                *)
(***************************************************************************)
\* Text t with the characters of set cs dropped.
Without(t, cs) == SelectSeq(t, LAMBDA x : x \notin cs)

\* t is a decimal numeral whose point, if any, stands after k characters.
IsNumeral(t) ==
    /\ \E i \in 1..Len(t) : t[i] \in Digits
    /\ \A i \in 1..Len(t) : t[i] \in Digits \cup {"."}
    /\ Cardinality({ i \in 1..Len(t) : t[i] = "." }) <= 1

\* Number of digits of t behind its point.
FractionDigits(t) ==
    Cardinality({ i \in 1..Len(t) : \E j \in 1..(i - 1) : t[j] = "." })

\* Value of the numeral t in units of 10 ^ -FractionDigits(t).
RECURSIVE NumeralUnits(_, _)
NumeralUnits(t, acc) ==
    IF t = <<>> THEN acc
    ELSE IF Head(t) = "." THEN NumeralUnits(Tail(t), acc)
    ELSE NumeralUnits(Tail(t), 10 * acc + DigitVal(Head(t)))

ReferenceParse(text) ==
    LET body      == Without(text, {"$", ","})
        thousands == \E i \in 1..Len(body) : body[i] = "K"
        rest      == Without(body, {"K"})
    IN  IF ~IsNumeral(rest) THEN ParseError
        ELSE Num(NumeralUnits(rest, 0) * (IF thousands THEN 1000 ELSE 1),
                 Pow10(FractionDigits(rest)))

\* C5: the conversion of lines 116-120 agrees with the reference parser on
\* every text: '$' and ',' are dropped, a text with 'K' yields the numeric
\* remainder times 1000, a text without it the numeric remainder, and a
\* text whose remainder is not a number yields a parse error, not a value.
C5_AgreesWithReference ==
    pc = "parse_done" =>
        /\ current_price = ReferenceParse(price_text)
        /\ (exc = "ValueError") = ~ReferenceParse(price_text).ok

\* C6: when navigate_to_city returns False, get_median_sale_prices raises
\* ValueError, the wait for the price element is never started, no series is
\* generated and main prints the error; the wait for the price element is
\* started only after navigate_to_city has returned True.
C6_NoExtractionWithoutNavigation ==
    /\ priceWaits > 0 => navResult = "True"
    /\ pc = "gm_wait_price" => navResult = "True"
    /\ navResult = "False" =>
           /\ priceWaits = 0
           /\ ~generated
           /\ ~seriesPrinted
           /\ pc \in {"gm_except", "main_except"} => exc = "ValueError"
           /\ pc \in {"main_finally", "main_return", "exited"} => errorLines = 1

C6_Witness ==
    pc = "exited" /\ navResult = "False" /\ errorLines = 1 /\ priceWaits = 0

\* C7: when setup_selenium raises, at any step, the exception leaves the
\* constructor and reaches the top level uncaught, and the run reads no
\* prompt, makes no navigation attempt and starts no extraction.
C7_SetupFailureAborts ==
    /\ pc = "setup_except" => (promptsRead = 0 /\ rootLoads = 0 /\ priceWaits = 0)
    /\ setupFailed =>
           /\ uncaught
           /\ exc # "none"
           /\ pc \in {"uncaught", "exited"}
           /\ promptsRead = 0
           /\ rootLoads = 0
           /\ priceWaits = 0

\* Setup failed after the browser instance had been created.
C7_Witness ==
    pc = "exited" /\ setupFailed /\ driver = "session" /\ uncaught

\* C8: median_prices.json is opened for writing only if navigate_to_city
\* returned True, the price was extracted and parsed and the series was
\* generated; it is written only in such a run.
C8_WriteOnlyOnSuccess ==
    (fileOpened \/ persisted \/ pc \in {"main_open", "main_dump"}) =>
        /\ navResult = "True"
        /\ priceWaits = 1
        /\ current_price.ok
        /\ generated
        /\ monthly_data # EmptyDict

C8_Witness ==
    pc = "exited" /\ fileOpened /\ persisted /\ generated

\* C9: a run of main whose try block is entered is all-or-nothing: at its
\* end either the series is printed and persisted and no error line is
\* printed, or the error line is printed and nothing of the series has been
\* printed or persisted.
C9_AllOrNothing ==
    (pc = "exited" /\ ~setupFailed) =>
        \/ (seriesPrinted /\ persisted /\ errorLines = 0)
        \/ (errorLines >= 1 /\ ~seriesPrinted /\ ~persisted /\ ~fileOpened)

\* The fatal conditions: setup failure, navigation failure after 3 attempts,
\* extraction that timed out or read an unparsable text.
Fatal ==
    \/ setupFailed
    \/ navResult = "False"
    \/ (priceWaits > 0 /\ ~generated)

\* C10: on every fatal condition main prints exactly one error line.
C10_OneErrorLine ==
    (pc = "exited" /\ Fatal) => errorLines = 1

\* C11: the anchor price of a series is always greater than 0: a text read
\* from the price element either parses to a price > 0 or makes extraction
\* fail, so the generator is never entered with, and no series is ever
\* generated from, a price that is zero, negative or not a number.
C11_PositiveAnchor ==
    (pc = "gm_generate" \/ generated) =>
        (~current_price.nan /\ current_price.n > 0)

\* The browser steps of one complete attempt, in the order of lines 67-86.
CompleteAttempt ==
    <<"get_root", "box_clickable", "query_submitted", "url_has_city", "get_market">>

\* g is u without its trailing '/' characters, followed by '/housing-market'.
IsTrimmedMarketUrl(u, g) ==
    \E k \in 0..Len(u) :
        /\ k > 0 => u[k] # "/"
        /\ \A j \in (k + 1)..Len(u) : u[j] = "/"
        /\ g = SubSeq(u, 1, k) \o MarketSuffix

C12_Step ==
    /\ navResult' = "True" =>
           /\ attemptSteps' = CompleteAttempt
           /\ UrlContainsCity(current_url')
           /\ IsTrimmedMarketUrl(current_url', lastGet')
    /\ navResult = "True" => UNCHANGED navVars

\* C12: navigate_to_city returns True only if one single attempt loaded the
\* root page, found the search box clickable, submitted the query, saw a
\* URL containing '/city/' and loaded that URL with its trailing '/' trimmed
\* and '/housing-market' appended (the URL that was trimmed and loaded
\* contains '/city/'); that load is the last browser action of
\* navigate_to_city: after it no further load, attempt or sleep happens.
C12_TrueOnlyAfterFullAttempt == [][C12_Step]_vars

\* Positions after the wait for the price element or the conversion failed.
AfterFailure == {"gm_except", "main_except", "main_finally", "main_return",
                 "uncaught", "exited"}

\* The wait for the price element was started and no series came of it.
ExtractionFailed == priceWaits > 0 /\ ~generated /\ pc \in AfterFailure

C13_Step ==
    ExtractionFailed =>
        /\ ExtractionFailed'
        /\ UNCHANGED <<navVars, genVars>>
        /\ ~seriesPrinted'

C13_State ==
    /\ priceWaits <= 1
    /\ (ExtractionFailed /\ pc = "exited") =>
           (errorLines = 1 /\ ~seriesPrinted /\ ~persisted)

\* C13: extraction is single-shot: the wait for the price element is
\* started at most once in a run, and after an extraction failure there is
\* no further navigation attempt, no further extraction and no series
\* generation, and the run ends with the error line and no series.
C13_SingleShotExtraction == [](C13_State) /\ [][C13_Step]_vars

\* A run that ended after an unparsable price text.
C13_Witness ==
    /\ pc = "exited"
    /\ priceWaits = 1
    /\ price_text = <<"N", "/", "A">>
    /\ ~generated
    /\ errorLines = 1

C14_Step ==
    /\ sleeps' # sleeps => (sleeps' = sleeps + 1 /\ sleptSeconds' = sleptSeconds + 2)
    /\ typingSleeps' # typingSleeps =>
           (attemptSteps = <<"get_root", "box_clickable">> /\ exc = "none"
            /\ UNCHANGED <<sleeps, sleptSeconds, failedAttempts, rootLoads>>)
    /\ failedAttempts' # failedAttempts =>
           (failedAttempts' = failedAttempts + 1 /\ sleeps' = sleeps + 1)
    /\ rootLoads' # rootLoads => (rootLoads' = rootLoads + 1 /\ sleeps = rootLoads)

C14_State ==
    /\ rootLoads <= 3
    /\ sleeps = failedAttempts
    /\ sleptSeconds = 2 * sleeps
    /\ navResult = "True" => sleeps = rootLoads - 1
    /\ navResult = "False" => sleeps = rootLoads

\* C14: every failed attempt of navigate_to_city is followed by exactly one
\* backoff sleep of 2 time units, whatever the attempt number, the sleep is
\* over before the next root-page load begins (at each load every earlier
\* attempt has had its sleep), and there are never more than 3 attempts.
\* The sleeps between typed characters fall inside an attempt that has not
\* failed, none between a failure and the next load.
C14_FixedBackoff == [](C14_State) /\ [][C14_Step]_vars

C14_Witness ==
    /\ pc = "exited"
    /\ navResult = "False"
    /\ sleeps = 3
    /\ sleptSeconds = 6
    /\ typingSleeps > 0

\* The key each iteration of the loop formats: i |-> strftime of anchor - 30 i days.
LoopKeys == [i \in 0..35 |-> DateKey(current_date - 30 * i)]

\* Iterations of the loop whose date formats to key k.
IterationsOf(keys, k) == { i \in 0..35 : keys[i] = k }

\* The value iteration i computes: line 128-130 with the i-th draw.
ValueAt(i) == MonthlyPrice(current_price, Variation(seed, i))

Largest(S) == CHOOSE m \in S : \A x \in S : x <= m

\* C15: last write wins: the value the returned series holds under a key is
\* the perturbed price computed at the largest iteration index that formats
\* to that key; values of earlier iterations with the same key are gone.
C15_LastWriteWins ==
    pc = "gen_done" =>
        \A keys \in {LoopKeys} :
            \A k \in DOMAIN monthly_data :
                /\ IterationsOf(keys, k) # {}
                /\ monthly_data[k] = ValueAt(Largest(IterationsOf(keys, k)))

\* Two iterations share a key, computed different values, the later one is kept.
C15_Witness ==
    /\ pc = "gen_done"
    /\ \E keys \in {LoopKeys} :
           \E k \in DOMAIN monthly_data :
               \E i \in IterationsOf(keys, k), j \in IterationsOf(keys, k) :
                   /\ i < j
                   /\ ValueAt(i) # ValueAt(j)
                   /\ monthly_data[k] = ValueAt(j)
                   /\ monthly_data[k] # ValueAt(i)

\* Month count (12 * year + month) of a YYYY-MM key and of a day.
KeyMonths(k) == 12 * DigitsValue(SubSeq(k, 1, 4)) + DigitsValue(SubSeq(k, 6, 7))

DayMonths(ord) == 12 * YearMonth(ord)[1] + YearMonth(ord)[2]

\* C17: for every anchor timestamp the series has at least 1 and at most 36
\* keys, it holds the key of the anchor's own month, and every key is the
\* month of the anchor minus 30 * i days for some i in 0..35: none lies after
\* the anchor month or before the month of the anchor minus 1050 days.
C17_KeysWithinLoopDates ==
    pc = "gen_done" =>
        /\ Cardinality(DOMAIN monthly_data) >= 1
        /\ Cardinality(DOMAIN monthly_data) <= 36
        /\ DateKey(current_date) \in DOMAIN monthly_data
        /\ \A keys \in {LoopKeys}, first \in {DayMonths(current_date - 1050)},
                  last \in {DayMonths(current_date)} :
               \A k \in DOMAIN monthly_data :
                   /\ \E i \in 0..35 : k = keys[i]
                   /\ Len(k) = 7 /\ k[5] = "-"
                   /\ KeyMonths(k) <= last
                   /\ KeyMonths(k) >= first

\* A series with fewer than 36 keys, the anchor's month among them.
C17_Witness ==
    /\ pc = "gen_done"
    /\ Cardinality(DOMAIN monthly_data) < 36
    /\ DateKey(current_date) \in DOMAIN monthly_data

C16_Step ==
    quitCalls' # quitCalls =>
        /\ UNCHANGED <<seriesPrinted, fileOpened, persisted, errorLines>>
        /\ exc' = exc
        /\ uncaught' = uncaught

\* C16: a failure of session termination never changes the outcome of the
\* run: whether driver.quit returns or raises, in main's finally block or in
\* the destructor, the step prints no error line, leaves what was printed
\* and persisted as it was, and lets no exception leave.
C16_QuitFailureSuppressed == [][C16_Step]_vars

\* A run that printed and persisted the series although quit raised.
C16_Witness ==
    /\ pc = "exited"
    /\ quitRaised
    /\ quitCalls = 2
    /\ seriesPrinted
    /\ persisted
    /\ errorLines = 0
    /\ ~uncaught

====
